---- MODULE Spec2Model ----
(***************************************************************************)
(* Model of cc/vndk.go: the VNDK classification predicates of vndkdep,     *)
(* the link-type check vndkCheckLinkType, and the registry builder         *)
(* vndkMutator with its four package-level name lists and their mutex.     *)
(*                                                                         *)
(* Strings are sequences of byte values, so that strings.TrimPrefix,       *)
(* strings.TrimSuffix and sort.Strings are computed as Go computes them.   *)
(***************************************************************************)
EXTENDS Integers, Sequences, FiniteSets, TLC

(* ------------------------------ bounds --------------------------------- *)

\* number of mutator workers calling vndkMutator concurrently
NumWorkers == 2

\* number of traversal passes run in one process (SpecPasses only)
MaxPasses == 2

Workers == 1..NumWorkers

NoWorker == 0

(* ------------------------------ strings -------------------------------- *)

\* "prebuilt_"
PrebuiltPrefix == <<112, 114, 101, 98, 117, 105, 108, 116, 95>>

\* ".llndk"
llndkLibrarySuffix == <<46, 108, 108, 110, 100, 107>>

\* library names "ab" and "b": byte order puts the longer name first
BaseNames == {<<97, 98>>, <<98>>}

HasPrefix(s, prefix) ==
    /\ Len(s) >= Len(prefix)
    /\ SubSeq(s, 1, Len(prefix)) = prefix

HasSuffix(s, suffix) ==
    /\ Len(s) >= Len(suffix)
    /\ SubSeq(s, Len(s) - Len(suffix) + 1, Len(s)) = suffix

TrimPrefix(s, prefix) ==
    IF HasPrefix(s, prefix) THEN SubSeq(s, Len(prefix) + 1, Len(s)) ELSE s

TrimSuffix(s, suffix) ==
    IF HasSuffix(s, suffix) THEN SubSeq(s, 1, Len(s) - Len(suffix)) ELSE s

\* Go's string order: byte-wise lexicographic, a proper prefix sorts first
RECURSIVE StrLess(_, _)
StrLess(s, t) ==
    IF t = <<>> THEN FALSE
    ELSE IF s = <<>> THEN TRUE
    ELSE IF Head(s) < Head(t) THEN TRUE
    ELSE IF Head(s) > Head(t) THEN FALSE
    ELSE StrLess(Tail(s), Tail(t))

RECURSIVE InsertInOrder(_, _)
InsertInOrder(x, list) ==
    IF list = <<>> THEN <<x>>
    ELSE IF StrLess(Head(list), x) THEN <<Head(list)>> \o InsertInOrder(x, Tail(list))
    ELSE <<x>> \o list

RECURSIVE SortedCopy(_)
SortedCopy(list) ==
    IF list = <<>> THEN <<>>
    ELSE InsertInOrder(Head(list), SortedCopy(Tail(list)))

SortStrings_none(list) == list

\* sort.Strings
SortStrings(list) == SortedCopy(list)

inList(s, list) == \E i \in 1..Len(list) : list[i] = s

Names(list) == {list[i] : i \in 1..Len(list)}

IsSorted(list) == \A i \in 1..(Len(list) - 1) : StrLess(list[i], list[i + 1])

(* ---------------------------- classification --------------------------- *)

\* a *bool property: set to true, set to false, or nil
Tri == {"true", "false", "nil"}

Bool(p) == p = "true"

Linkers == {"nil", "libraryDecorator", "prebuiltLibraryLinker", "llndkStubDecorator"}

isVndk(m) == Bool(m.Enabled)

isVndkSp(m) == Bool(m.Support_system_process)

\* "native:vendor"
NativeVendor == <<110, 97, 116, 105, 118, 101, 58, 118, 101, 110, 100, 111, 114>>

\* "native:vendor:vndk"
NativeVendorVndk == <<110, 97, 116, 105, 118, 101, 58, 118, 101, 110, 100, 111, 114, 58, 118, 110, 100, 107>>

\* "native:vendor:vndksp"
NativeVendorVndkSp == <<110, 97, 116, 105, 118, 101, 58, 118, 101, 110, 100, 111, 114, 58, 118, 110, 100, 107, 115, 112>>

typeName_noSp(m) ==
    IF ~isVndk(m) THEN NativeVendor
    ELSE NativeVendorVndk

typeName(m) ==
    IF ~isVndk(m) THEN NativeVendor
    ELSE IF ~isVndkSp(m) THEN NativeVendorVndk
    ELSE NativeVendorVndkSp

Module(name, linker, shared, enabled, ssp, va, stubVa, useVndk, hasDep) ==
    [name |-> name, linker |-> linker, shared |-> shared,
     Enabled |-> enabled, Support_system_process |-> ssp,
     Vendor_available |-> va, llndkVendorAvailable |-> stubVa,
     UseVndk |-> useVndk, hasVndkdep |-> hasDep]

NoModule == Module(<<>>, "nil", FALSE, "nil", "nil", "nil", FALSE, FALSE, FALSE)

(* ------------------------------ modules -------------------------------- *)

\* modules handed to vndkMutator: stubs are named <base>.llndk, prebuilts
\* prebuilt_<base>; every library module carries a vndkdep
StubModules ==
    {Module(b \o llndkLibrarySuffix, "llndkStubDecorator", TRUE, "nil", "nil", "nil", sva, TRUE, TRUE) :
        b \in BaseNames, sva \in BOOLEAN}

SharedModules ==
    {Module(b, "libraryDecorator", TRUE, e, s, va, FALSE, TRUE, TRUE) :
        b \in BaseNames, e \in {"true", "nil"}, s \in {"true", "nil"}, va \in Tri}
    \cup
    {Module(PrebuiltPrefix \o b, "prebuiltLibraryLinker", TRUE, e, s, va, FALSE, TRUE, TRUE) :
        b \in BaseNames, e \in {"true", "nil"}, s \in {"true", "nil"}, va \in Tri}

StaticModules ==
    {Module(b, "libraryDecorator", FALSE, e, "nil", "nil", FALSE, TRUE, TRUE) :
        b \in BaseNames, e \in {"true", "nil"}}
    \cup
    {Module(PrebuiltPrefix \o b, "prebuiltLibraryLinker", FALSE, e, "nil", "nil", FALSE, TRUE, TRUE) :
        b \in BaseNames, e \in {"true", "nil"}}

OtherModules ==
    {Module(b, "nil", FALSE, e, "nil", "nil", FALSE, TRUE, TRUE) :
        b \in BaseNames, e \in {"true", "nil"}}

VisitModules == StubModules \cup SharedModules \cup StaticModules \cup OtherModules

(* ------------------------------- state --------------------------------- *)

VARIABLES
    vndkCoreLibraries,      \* []string
    vndkSpLibraries,        \* []string
    llndkLibraries,         \* []string
    vndkPrivateLibraries,   \* []string
    vndkLibrariesLock,      \* the worker holding the mutex, or NoWorker
    pc,                     \* pc[w]: where worker w is inside vndkMutator
    mod,                    \* mod[w]: the module worker w is visiting
    recorded,               \* history: what each completed visit records when run alone, united
    passNames,              \* history: the names the completed visits of this pass record
    owed,                   \* history: names put in a tier list by a visit that must also list them private
    pass,                   \* number of the running traversal pass
    edgeFrom,               \* the vndkdep vndkCheckLinkType is called on
    edgeTo,                 \* its argument `to`
    ctxErrors,              \* what the call passed to ctx.ModuleErrorf, in order
    edgePc                  \* "off", "ready" or "checked"

regVars == <<vndkCoreLibraries, vndkSpLibraries, llndkLibraries, vndkPrivateLibraries>>

edgeVars == <<edgeFrom, edgeTo, ctxErrors, edgePc>>

vars == <<vndkCoreLibraries, vndkSpLibraries, llndkLibraries, vndkPrivateLibraries,
          vndkLibrariesLock, pc, mod, recorded, passNames, owed, pass,
          edgeFrom, edgeTo, ctxErrors, edgePc>>

\* the four lists as one value
Regs ==
    [core |-> vndkCoreLibraries, sp |-> vndkSpLibraries,
     llndk |-> llndkLibraries, private |-> vndkPrivateLibraries]

EmptyRegs == [core |-> <<>>, sp |-> <<>>, llndk |-> <<>>, private |-> <<>>]

SetRegs(r) ==
    /\ vndkCoreLibraries' = r.core
    /\ vndkSpLibraries' = r.sp
    /\ llndkLibraries' = r.llndk
    /\ vndkPrivateLibraries' = r.private

RegNames(r) ==
    [core |-> Names(r.core), sp |-> Names(r.sp),
     llndk |-> Names(r.llndk), private |-> Names(r.private)]

NoNames == [core |-> {}, sp |-> {}, llndk |-> {}, private |-> {}]

(* ----------------------------- vndkMutator ----------------------------- *)

appendSorted_dup(name, list) == SortStrings(Append(list, name))

appendSorted_assign(name, list) == IF ~inList(name, list) THEN SortStrings(<<name>>) ELSE list

\* if !inList(name, list) { list = append(list, name); sort.Strings(list) }
appendSorted(name, list) ==
    IF ~inList(name, list) THEN SortStrings(Append(list, name)) ELSE list

isStub(m) == m.linker = "llndkStubDecorator"

\* (is_lib && lib.shared()) || (is_prebuilt_lib && prebuilt_lib.shared())
isSharedLib(m) ==
    \/ m.linker = "libraryDecorator" /\ m.shared
    \/ m.linker = "prebuiltLibraryLinker" /\ m.shared

stubName(m) == TrimSuffix(m.name, llndkLibrarySuffix)

libName(m) == TrimPrefix(m.name, PrebuiltPrefix)

stubLlndk(r, m) == [r EXCEPT !.llndk = appendSorted(stubName(m), @)]

stubPrivate_inverted(r, m) ==
    IF m.llndkVendorAvailable
    THEN [r EXCEPT !.private = appendSorted(stubName(m), @)]
    ELSE r

stubPrivate(r, m) ==
    IF ~m.llndkVendorAvailable
    THEN [r EXCEPT !.private = appendSorted(stubName(m), @)]
    ELSE r

libTier_skip(r, m) == r

libTier_firstWins(r, m) ==
    IF inList(libName(m), r.core) \/ inList(libName(m), r.sp) THEN r
    ELSE IF isVndkSp(m)
    THEN [r EXCEPT !.sp = appendSorted(libName(m), @)]
    ELSE [r EXCEPT !.core = appendSorted(libName(m), @)]

libTier(r, m) ==
    IF isVndkSp(m)
    THEN [r EXCEPT !.sp = appendSorted(libName(m), @)]
    ELSE [r EXCEPT !.core = appendSorted(libName(m), @)]

libPrivate_explicitFalse(r, m) ==
    IF m.Vendor_available = "false"
    THEN [r EXCEPT !.private = appendSorted(libName(m), @)]
    ELSE r

libPrivate(r, m) ==
    IF ~Bool(m.Vendor_available)
    THEN [r EXCEPT !.private = appendSorted(libName(m), @)]
    ELSE r

\* one whole call of vndkMutator, run alone
vndkMutator(r, m) ==
    IF isStub(m) THEN stubPrivate(stubLlndk(r, m), m)
    ELSE IF isSharedLib(m) /\ isVndk(m) THEN libPrivate(libTier(r, m), m)
    ELSE r

Union4(a, b) ==
    [core |-> a.core \cup b.core, sp |-> a.sp \cup b.sp,
     llndk |-> a.llndk \cup b.llndk, private |-> a.private \cup b.private]

AllNames(n) == n.core \cup n.sp \cup n.llndk \cup n.private

\* lines 132-134: the module is an LL-NDK stub and Lock() returns
VisitStub(w, m) ==
    /\ pc[w] = "idle"
    /\ isStub(m)
    /\ vndkLibrariesLock = NoWorker
    /\ vndkLibrariesLock' = w
    /\ pc' = [pc EXCEPT ![w] = "stubLlndk"]
    /\ mod' = [mod EXCEPT ![w] = m]
    /\ UNCHANGED <<regVars, recorded, passNames, owed, pass, edgeVars>>

\* lines 148-153: the module is a shared library and VNDK, and Lock() returns
VisitLibrary(w, m) ==
    /\ pc[w] = "idle"
    /\ ~isStub(m)
    /\ isSharedLib(m) /\ isVndk(m)
    /\ vndkLibrariesLock = NoWorker
    /\ vndkLibrariesLock' = w
    /\ pc' = [pc EXCEPT ![w] = "libTier"]
    /\ mod' = [mod EXCEPT ![w] = m]
    /\ UNCHANGED <<regVars, recorded, passNames, owed, pass, edgeVars>>

\* lines 147-176 for every other module: the call returns without touching anything
VisitOther(w, m) ==
    /\ pc[w] = "idle"
    /\ ~isStub(m)
    /\ ~(isSharedLib(m) /\ isVndk(m))
    /\ UNCHANGED vars

\* lines 136-140
StubInsertLlndk(w) ==
    /\ pc[w] = "stubLlndk"
    /\ SetRegs(stubLlndk(Regs, mod[w]))
    /\ owed' = IF ~mod[w].llndkVendorAvailable THEN owed \cup {stubName(mod[w])} ELSE owed
    /\ pc' = [pc EXCEPT ![w] = "stubPrivate"]
    /\ UNCHANGED <<vndkLibrariesLock, mod, recorded, passNames, pass, edgeVars>>

\* lines 141-146
StubInsertPrivate(w) ==
    /\ pc[w] = "stubPrivate"
    /\ SetRegs(stubPrivate(Regs, mod[w]))
    /\ pc' = [pc EXCEPT ![w] = "return"]
    /\ UNCHANGED <<vndkLibrariesLock, mod, recorded, passNames, owed, pass, edgeVars>>

LibInsertTier_unlocked(w) ==
    /\ pc[w] = "libTier"
    /\ SetRegs(libTier(Regs, mod[w]))
    /\ owed' = IF ~Bool(mod[w].Vendor_available) THEN owed \cup {libName(mod[w])} ELSE owed
    /\ pc' = [pc EXCEPT ![w] = "libPrivate"]
    /\ vndkLibrariesLock' = NoWorker
    /\ UNCHANGED <<mod, recorded, passNames, pass, edgeVars>>

\* lines 155-165
LibInsertTier(w) ==
    /\ pc[w] = "libTier"
    /\ SetRegs(libTier(Regs, mod[w]))
    /\ owed' = IF ~Bool(mod[w].Vendor_available) THEN owed \cup {libName(mod[w])} ELSE owed
    /\ pc' = [pc EXCEPT ![w] = "libPrivate"]
    /\ UNCHANGED <<vndkLibrariesLock, mod, recorded, passNames, pass, edgeVars>>

\* lines 166-171
LibInsertPrivate(w) ==
    /\ pc[w] = "libPrivate"
    /\ SetRegs(libPrivate(Regs, mod[w]))
    /\ pc' = [pc EXCEPT ![w] = "return"]
    /\ UNCHANGED <<vndkLibrariesLock, mod, recorded, passNames, owed, pass, edgeVars>>

Return_noUnlock(w) ==
    /\ pc[w] = "return"
    /\ recorded' = Union4(recorded, RegNames(vndkMutator(EmptyRegs, mod[w])))
    /\ passNames' = passNames \cup AllNames(RegNames(vndkMutator(EmptyRegs, mod[w])))
    /\ pc' = [pc EXCEPT ![w] = "idle"]
    /\ mod' = [mod EXCEPT ![w] = NoModule]
    /\ UNCHANGED <<regVars, vndkLibrariesLock, owed, pass, edgeVars>>

\* lines 135, 154: the deferred Unlock() runs as the call returns
Return(w) ==
    /\ pc[w] = "return"
    /\ vndkLibrariesLock' = NoWorker
    /\ recorded' = Union4(recorded, RegNames(vndkMutator(EmptyRegs, mod[w])))
    /\ passNames' = passNames \cup AllNames(RegNames(vndkMutator(EmptyRegs, mod[w])))
    /\ pc' = [pc EXCEPT ![w] = "idle"]
    /\ mod' = [mod EXCEPT ![w] = NoModule]
    /\ UNCHANGED <<regVars, owed, pass, edgeVars>>

Quiescent == \A w \in Workers : pc[w] = "idle"

\* a further traversal pass starts in the same process: lines 122-128 are
\* package-level variables, and no statement of the file empties them
NewPass ==
    /\ Quiescent
    /\ pass < MaxPasses
    /\ pass' = pass + 1
    /\ passNames' = {}
    /\ UNCHANGED <<regVars, vndkLibrariesLock, pc, mod, recorded, owed, edgeVars>>

InitRegistries ==
    /\ vndkCoreLibraries = <<>>
    /\ vndkSpLibraries = <<>>
    /\ llndkLibraries = <<>>
    /\ vndkPrivateLibraries = <<>>
    /\ vndkLibrariesLock = NoWorker
    /\ pc = [w \in Workers |-> "idle"]
    /\ mod = [w \in Workers |-> NoModule]
    /\ recorded = NoNames
    /\ passNames = {}
    /\ owed = {}
    /\ pass = 1

Init ==
    /\ InitRegistries
    /\ edgeFrom = NoModule
    /\ edgeTo = NoModule
    /\ ctxErrors = <<>>
    /\ edgePc = "off"

Visit ==
    \E w \in Workers :
        \/ \E m \in VisitModules : VisitStub(w, m)
        \/ \E m \in VisitModules : VisitLibrary(w, m)
        \/ \E m \in VisitModules : VisitOther(w, m)
        \/ StubInsertLlndk(w)
        \/ StubInsertPrivate(w)
        \/ LibInsertTier(w)
        \/ LibInsertPrivate(w)
        \/ Return(w)

Next == Visit

\* one traversal pass from process start
Spec == Init /\ [][Next]_vars

NextPasses == Visit \/ NewPass

\* several traversal passes in one process
SpecPasses == Init /\ [][NextPasses]_vars

(* ------------------- one visit per worker, started together ------------- *)

\* the modules handed to the workers: two stubs, three VNDK shared libraries
\* and a static library
LiveModules ==
    {Module(<<98>> \o llndkLibrarySuffix, "llndkStubDecorator", TRUE, "nil", "nil", "nil", sva, TRUE, TRUE) :
        sva \in BOOLEAN}
    \cup
    {Module(<<98>>, "libraryDecorator", TRUE, "true", "nil", "nil", FALSE, TRUE, TRUE),
     Module(<<97, 98>>, "libraryDecorator", TRUE, "true", "true", "true", FALSE, TRUE, TRUE),
     Module(PrebuiltPrefix \o <<98>>, "prebuiltLibraryLinker", TRUE, "true", "true", "false", FALSE, TRUE, TRUE),
     Module(<<98>>, "libraryDecorator", FALSE, "true", "nil", "nil", FALSE, TRUE, TRUE)}

\* lines 132-134: the call is at Lock() in the stub branch, and Lock() returns
AcquireStub(w) ==
    /\ pc[w] = "start"
    /\ isStub(mod[w])
    /\ vndkLibrariesLock = NoWorker
    /\ vndkLibrariesLock' = w
    /\ pc' = [pc EXCEPT ![w] = "stubLlndk"]
    /\ UNCHANGED <<regVars, mod, recorded, passNames, owed, pass, edgeVars>>

\* lines 148-153: the call is at Lock() in the library branch, and Lock() returns
AcquireLibrary(w) ==
    /\ pc[w] = "start"
    /\ ~isStub(mod[w])
    /\ isSharedLib(mod[w]) /\ isVndk(mod[w])
    /\ vndkLibrariesLock = NoWorker
    /\ vndkLibrariesLock' = w
    /\ pc' = [pc EXCEPT ![w] = "libTier"]
    /\ UNCHANGED <<regVars, mod, recorded, passNames, owed, pass, edgeVars>>

\* lines 147-176 for every other module: the call returns without locking
ReturnUntouched(w) ==
    /\ pc[w] = "start"
    /\ ~isStub(mod[w])
    /\ ~(isSharedLib(mod[w]) /\ isVndk(mod[w]))
    /\ pc' = [pc EXCEPT ![w] = "idle"]
    /\ mod' = [mod EXCEPT ![w] = NoModule]
    /\ UNCHANGED <<regVars, vndkLibrariesLock, recorded, passNames, owed, pass, edgeVars>>

\* every worker has been handed one module and has entered vndkMutator
InitLive ==
    /\ vndkCoreLibraries = <<>>
    /\ vndkSpLibraries = <<>>
    /\ llndkLibraries = <<>>
    /\ vndkPrivateLibraries = <<>>
    /\ vndkLibrariesLock = NoWorker
    /\ pc = [w \in Workers |-> "start"]
    /\ mod \in [Workers -> LiveModules]
    /\ recorded = NoNames
    /\ passNames = {}
    /\ owed = {}
    /\ pass = 1
    /\ edgeFrom = NoModule
    /\ edgeTo = NoModule
    /\ ctxErrors = <<>>
    /\ edgePc = "off"

WorkerStep(w) ==
    \/ AcquireStub(w)
    \/ AcquireLibrary(w)
    \/ ReturnUntouched(w)
    \/ StubInsertLlndk(w)
    \/ StubInsertPrivate(w)
    \/ LibInsertTier(w)
    \/ LibInsertPrivate(w)
    \/ Return(w)

NextLive == \E w \in Workers : WorkerStep(w)

\* the scheduler keeps running every goroutine that can take a step
SpecLive ==
    /\ InitLive
    /\ [][NextLive]_vars
    /\ \A w \in Workers : WF_vars(WorkerStep(w))

(* -------------------------- vndkCheckLinkType -------------------------- *)

\* the vndkdep of the depending module
FromViews ==
    {Module(<<97>>, "libraryDecorator", TRUE, e, s, "nil", FALSE, TRUE, TRUE) :
        e \in Tri, s \in Tri}

\* the module depended on
ToModules ==
    {Module(<<98>>, l, sh, e, s, va, sva, use, dep) :
        l \in Linkers, sh \in BOOLEAN, e \in {"true", "nil"}, s \in {"true", "nil"},
        va \in Tri, sva \in BOOLEAN, use \in BOOLEAN, dep \in BOOLEAN}

\* the format strings of the three ModuleErrorf calls, verbs written <...>
ErrVendorAvailableFalse ==
    "Vendor module that is not VNDK should not link to <to> which is marked as vendor_available: false"

ErrNotVendorAvailable == "(<type>) should not link to <to> which is not a vendor-available library"

ErrLinkType == "(<type>) should not link to <to>(<to type>)"

\* to.linker.(libraryInterface): the library decorators
implementsLibraryInterface(to) ==
    to.linker \in {"libraryDecorator", "prebuiltLibraryLinker"}

vendorOnlyViolation_nilIsFalse(to) ==
    IF to.linker = "llndkStubDecorator" /\ ~to.llndkVendorAvailable
    THEN TRUE
    ELSE /\ implementsLibraryInterface(to)
         /\ ~Bool(to.Vendor_available)

vendorOnlyViolation_stubOnly(to) ==
    to.linker = "llndkStubDecorator" /\ ~to.llndkVendorAvailable

vendorOnlyViolation_stubAlways(to) ==
    IF to.linker = "llndkStubDecorator"
    THEN TRUE
    ELSE /\ implementsLibraryInterface(to)
         /\ to.Vendor_available # "nil"
         /\ ~Bool(to.Vendor_available)

\* lines 87-97
vendorOnlyViolation(to) ==
    IF to.linker = "llndkStubDecorator" /\ ~to.llndkVendorAvailable
    THEN TRUE
    ELSE /\ implementsLibraryInterface(to)
         /\ to.Vendor_available # "nil"
         /\ ~Bool(to.Vendor_available)

tierViolation_vndkOnly(vndk, to) == isVndk(vndk) /\ ~isVndk(to)

\* line 115
tierViolation(vndk, to) ==
    \/ isVndk(vndk) /\ ~isVndk(to)
    \/ isVndkSp(vndk) /\ ~isVndkSp(to)

vndkCheckLinkType_noReturn(vndk, to) ==
    LET guard ==
            IF ~isVndk(vndk) /\ vendorOnlyViolation(to)
            THEN <<[format |-> ErrVendorAvailableFalse, args |-> <<to.name>>]>>
            ELSE <<>>
        variant ==
            IF ~to.UseVndk
            THEN <<[format |-> ErrNotVendorAvailable, args |-> <<typeName(vndk), to.name>>]>>
            ELSE <<>>
        tier ==
            IF to.hasVndkdep /\ tierViolation(vndk, to)
            THEN <<[format |-> ErrLinkType, args |-> <<typeName(vndk), to.name, typeName(to)>>]>>
            ELSE <<>>
    IN  IF to.linker = "nil" THEN <<>>
        ELSE IF ~(to.linker = "libraryDecorator" /\ to.shared) THEN guard
        ELSE guard \o variant \o tier

vndkCheckLinkType_staticToo(vndk, to) ==
    LET guard ==
            IF ~isVndk(vndk) /\ vendorOnlyViolation(to)
            THEN <<[format |-> ErrVendorAvailableFalse, args |-> <<to.name>>]>>
            ELSE <<>>
        rest ==
            IF to.linker # "libraryDecorator" THEN <<>>
            ELSE IF ~to.UseVndk
            THEN <<[format |-> ErrNotVendorAvailable, args |-> <<typeName(vndk), to.name>>]>>
            ELSE IF ~to.hasVndkdep THEN <<>>
            ELSE IF tierViolation(vndk, to)
            THEN <<[format |-> ErrLinkType, args |-> <<typeName(vndk), to.name, typeName(to)>>]>>
            ELSE <<>>
    IN  IF to.linker = "nil" THEN <<>> ELSE guard \o rest

\* the calls of ctx.ModuleErrorf one call of vndkCheckLinkType makes, in order
vndkCheckLinkType(vndk, to) ==
    LET guard ==
            IF ~isVndk(vndk) /\ vendorOnlyViolation(to)
            THEN <<[format |-> ErrVendorAvailableFalse, args |-> <<to.name>>]>>
            ELSE <<>>
        rest ==
            IF ~(to.linker = "libraryDecorator" /\ to.shared) THEN <<>>
            ELSE IF ~to.UseVndk
            THEN <<[format |-> ErrNotVendorAvailable, args |-> <<typeName(vndk), to.name>>]>>
            ELSE IF ~to.hasVndkdep THEN <<>>
            ELSE IF tierViolation(vndk, to)
            THEN <<[format |-> ErrLinkType, args |-> <<typeName(vndk), to.name, typeName(to)>>]>>
            ELSE <<>>
    IN  IF to.linker = "nil" THEN <<>> ELSE guard \o rest

\* the engine validates one edge
CheckLinkType ==
    /\ edgePc = "ready"
    /\ ctxErrors' = vndkCheckLinkType(edgeFrom, edgeTo)
    /\ edgePc' = "checked"
    /\ UNCHANGED <<regVars, vndkLibrariesLock, pc, mod, recorded, passNames, owed, pass,
                   edgeFrom, edgeTo>>

InitEdge ==
    /\ InitRegistries
    /\ edgeFrom \in FromViews
    /\ edgeTo \in ToModules
    /\ ctxErrors = <<>>
    /\ edgePc = "ready"

NextEdges == CheckLinkType

\* edge validation over every pair of views
SpecEdge == InitEdge /\ [][NextEdges]_vars

(* ------------------------------ properties ----------------------------- *)

Lists == <<vndkCoreLibraries, vndkSpLibraries, llndkLibraries, vndkPrivateLibraries>>

\* C1: for every classification view, isVndkSp() implies isVndk()
C1_VndkSpImpliesVndk ==
    /\ isVndkSp(edgeFrom) => isVndk(edgeFrom)
    /\ edgeTo.hasVndkdep => (isVndkSp(edgeTo) => isVndk(edgeTo))

\* C2: no name is in both vndkCore and vndkSp, whatever modules were visited
C2_CoreAndSpDisjoint ==
    Names(vndkCoreLibraries) \cap Names(vndkSpLibraries) = {}

\* C3: once the started visits have completed, every name in vndkPrivate is
\* also in llndk, vndkCore or vndkSp
C3_PrivateIsRefinement ==
    Quiescent =>
        Names(vndkPrivateLibraries) \subseteq
            (Names(llndkLibraries) \cup Names(vndkCoreLibraries) \cup Names(vndkSpLibraries))

C3_Witness ==
    /\ Quiescent
    /\ Len(vndkPrivateLibraries) = 2
    /\ vndkPrivateLibraries[1] \in Names(vndkSpLibraries)
    /\ vndkPrivateLibraries[2] \in Names(llndkLibraries) \ Names(vndkSpLibraries)

\* C4: once the started visits have completed, each registry holds, in
\* ascending order and once each, exactly the names those visits record when
\* each is run alone; the contents do not depend on the order or interleaving
C4_OrderIndependent ==
    Quiescent =>
        /\ RegNames(Regs) = recorded
        /\ \A i \in 1..4 : IsSorted(Lists[i])

C4_Witness ==
    /\ Quiescent
    /\ Len(vndkCoreLibraries) = 2
    /\ Len(vndkPrivateLibraries) = 2
    /\ Len(vndkSpLibraries) >= 1
    /\ Len(llndkLibraries) >= 1

\* everything a visit of m records is already recorded by completed visits,
\* as it is whenever m itself has been visited before
Covered(m) ==
    LET alone == RegNames(vndkMutator(EmptyRegs, m))
    IN  /\ alone.core \subseteq recorded.core
        /\ alone.sp \subseteq recorded.sp
        /\ alone.llndk \subseteq recorded.llndk
        /\ alone.private \subseteq recorded.private

\* C5: no step of a visit of a module that was visited before changes any
\* of the four registries
C5_RevisitChangesNothing ==
    [][\A w \in Workers :
          (pc[w] # "idle" /\ pc'[w] # pc[w] /\ Covered(mod[w])) => UNCHANGED regVars]_vars

C5_Witness ==
    \E w \in Workers :
        /\ pc[w] = "return"
        /\ Covered(mod[w])
        /\ Names(vndkPrivateLibraries) \cap AllNames(RegNames(vndkMutator(EmptyRegs, mod[w]))) # {}

\* C6: whenever the lock is free, every name that a visit of a module whose
\* vendor_available is not true has put in a tier registry is in vndkPrivate
C6_TierAndPrivateTogether ==
    vndkLibrariesLock = NoWorker => owed \subseteq Names(vndkPrivateLibraries)

C6_Witness ==
    /\ vndkLibrariesLock = NoWorker
    /\ Cardinality(owed) = 2
    /\ owed \subseteq Names(vndkCoreLibraries)

\* C7: each of the four registries is in ascending string order and holds
\* no name twice
C7_SortedNoDuplicates ==
    \A i \in 1..4 :
        /\ IsSorted(Lists[i])
        /\ Cardinality(Names(Lists[i])) = Len(Lists[i])

C7_Witness == \A i \in 1..4 : Len(Lists[i]) = 2

\* C8: no step removes a name from any registry
C8_MonotonicGrowth ==
    [][/\ Names(vndkCoreLibraries) \subseteq Names(vndkCoreLibraries')
       /\ Names(vndkSpLibraries) \subseteq Names(vndkSpLibraries')
       /\ Names(llndkLibraries) \subseteq Names(llndkLibraries')
       /\ Names(vndkPrivateLibraries) \subseteq Names(vndkPrivateLibraries')]_vars

C8_Witness ==
    /\ Len(vndkSpLibraries) = 2
    /\ Len(llndkLibraries) = 1
    /\ \E w \in Workers : pc[w] = "stubLlndk" /\ ~inList(stubName(mod[w]), llndkLibraries)

\* C9: in a second or later pass the registries hold only names recorded
\* by visits of that pass
C9_PassStartsEmpty ==
    (pass > 1 /\ Quiescent) =>
        \A i \in 1..4 : Names(Lists[i]) \subseteq passNames

\* "vendor:vndk"
TierVndk == <<118, 101, 110, 100, 111, 114, 58, 118, 110, 100, 107>>

\* "vendor:vndksp"
TierVndkSp == <<118, 101, 110, 100, 111, 114, 58, 118, 110, 100, 107, 115, 112>>

TierErrors == {i \in 1..Len(ctxErrors) : ctxErrors[i].format = ErrLinkType}

\* `to` is a shared library with a vendor variant and a vndkdep
TierChecked ==
    /\ edgePc = "checked"
    /\ edgeTo.linker = "libraryDecorator" /\ edgeTo.shared
    /\ edgeTo.UseVndk
    /\ edgeTo.hasVndkdep

HasError(f) == \E i \in 1..Len(ctxErrors) : ctxErrors[i].format = f

EveryErrorNamesTo ==
    \A i \in 1..Len(ctxErrors) :
        \E j \in 1..Len(ctxErrors[i].args) : ctxErrors[i].args[j] = edgeTo.name

\* from is a plain vendor module (not VNDK) and `to` a shared library,
\* plain or prebuilt
PlainVendorOnShared ==
    /\ edgePc = "checked"
    /\ ~isVndk(edgeFrom)
    /\ edgeTo.linker \in {"libraryDecorator", "prebuiltLibraryLinker"}
    /\ edgeTo.shared

\* C11 as stated: a plain vendor module depending on a shared library whose
\* vendor_available is unset gets no diagnostic
C11_UnsetGivesNoDiagnostic ==
    (PlainVendorOnShared /\ edgeTo.Vendor_available = "nil") => ctxErrors = <<>>

\* C11 as amended: a plain vendor module depending on a shared library whose
\* vendor_available is unset never gets the vendor_available: false
\* diagnostic, and gets no diagnostic at all when the library has a vendor
\* variant and from.isVndkSp() is false
C11_UnsetIsPermitted ==
    (PlainVendorOnShared /\ edgeTo.Vendor_available = "nil") =>
        /\ ~HasError(ErrVendorAvailableFalse)
        /\ (edgeTo.UseVndk /\ ~isVndkSp(edgeFrom)) => ctxErrors = <<>>

C11_Witness ==
    /\ PlainVendorOnShared
    /\ edgeTo.Vendor_available = "nil"
    /\ edgeTo.linker = "libraryDecorator"
    /\ edgeTo.UseVndk /\ edgeTo.hasVndkdep /\ ~isVndkSp(edgeFrom)
    /\ ctxErrors = <<>>

\* C12 as stated: a plain vendor module depending on a shared library whose
\* vendor_available is false gets exactly one diagnostic, and it names the
\* library
C12_FalseGivesExactlyOne ==
    (PlainVendorOnShared /\ edgeTo.Vendor_available = "false") =>
        /\ Len(ctxErrors) = 1
        /\ EveryErrorNamesTo

\* C12 as amended: such an edge gets the vendor_available: false diagnostic
\* exactly once, first, naming the library; every diagnostic of the edge
\* names the library; and that diagnostic is the only one when the library
\* has a vendor variant and from.isVndkSp() is false
C12_FalseIsReportedOnce ==
    (PlainVendorOnShared /\ edgeTo.Vendor_available = "false") =>
        /\ Len(ctxErrors) >= 1
        /\ ctxErrors[1] = [format |-> ErrVendorAvailableFalse, args |-> <<edgeTo.name>>]
        /\ \A i \in 2..Len(ctxErrors) : ctxErrors[i].format # ErrVendorAvailableFalse
        /\ EveryErrorNamesTo
        /\ (edgeTo.UseVndk /\ ~isVndkSp(edgeFrom)) => Len(ctxErrors) = 1

C12_Witness ==
    /\ PlainVendorOnShared
    /\ edgeTo.Vendor_available = "false"
    /\ edgeTo.linker = "libraryDecorator"
    /\ edgeTo.UseVndk /\ ~isVndkSp(edgeFrom)
    /\ Len(ctxErrors) = 1

\* C13 as stated: one call emits zero or one diagnostic
C13_AtMostOneDiagnostic ==
    edgePc = "checked" => Len(ctxErrors) <= 1

\* C13 as amended: one call emits at most two diagnostics, and two only as
\* the vendor_available: false diagnostic followed by one of the other two
C13_AtMostTwoDiagnostics ==
    edgePc = "checked" =>
        /\ Len(ctxErrors) <= 2
        /\ Len(ctxErrors) = 2 =>
               /\ ctxErrors[1].format = ErrVendorAvailableFalse
               /\ ctxErrors[2].format \in {ErrNotVendorAvailable, ErrLinkType}

C13_Witness ==
    /\ edgePc = "checked"
    /\ ~isVndkSp(edgeFrom)
    /\ Len(ctxErrors) = 2
    /\ ctxErrors[2].format = ErrNotVendorAvailable

\* the diagnostics of the stages after the guard: variant existence and tier
LaterErrors(errs) == SelectSeq(errs, LAMBDA e : e.format # ErrVendorAvailableFalse)

\* C14: a prebuilt shared library as `to` gets the same variant-existence and
\* tier diagnostics as a plain shared library with the same fields
C14_PrebuiltCheckedAsShared ==
    (edgePc = "checked" /\ edgeTo.linker = "prebuiltLibraryLinker" /\ edgeTo.shared) =>
        LaterErrors(ctxErrors) =
            LaterErrors(vndkCheckLinkType(edgeFrom, [edgeTo EXCEPT !.linker = "libraryDecorator"]))

\* the library a stub module stands for: the name the suffix was attached to
CanonStub(m) == CHOOSE n \in BaseNames : n \o llndkLibrarySuffix = m.name

C15_AfterStub ==
    \A w \in Workers :
        (pc[w] = "return" /\ isStub(mod[w])) =>
            /\ inList(CanonStub(mod[w]), llndkLibraries)
            /\ ~mod[w].llndkVendorAvailable => inList(CanonStub(mod[w]), vndkPrivateLibraries)

C15_StubStep ==
    /\ Names(llndkLibraries) \subseteq Names(llndkLibraries')
    /\ Names(vndkPrivateLibraries) \subseteq Names(vndkPrivateLibraries')
    /\ \A w \in Workers :
        /\ pc[w] \in {"stubLlndk", "stubPrivate"} =>
               /\ vndkCoreLibraries' = vndkCoreLibraries
               /\ vndkSpLibraries' = vndkSpLibraries
        /\ (pc[w] = "stubLlndk" /\ pc'[w] = "stubPrivate") =>
               /\ Names(llndkLibraries') = Names(llndkLibraries) \cup {CanonStub(mod[w])}
               /\ vndkPrivateLibraries' = vndkPrivateLibraries
        /\ (pc[w] = "stubPrivate" /\ pc'[w] = "return") =>
               /\ llndkLibraries' = llndkLibraries
               /\ Names(vndkPrivateLibraries') =
                      Names(vndkPrivateLibraries) \cup
                          (IF mod[w].llndkVendorAvailable THEN {} ELSE {CanonStub(mod[w])})

\* C15: the visit of an LL-NDK stub puts the name without its suffix into
\* llndkLibraries, and into vndkPrivateLibraries exactly when the stub's
\* vendor_available is not true, and touches neither tier list; no later
\* visit takes an entry out of llndkLibraries or vndkPrivateLibraries
C15_StubVisit == []C15_AfterStub /\ [][C15_StubStep]_vars

\* a VNDK-core library marked vendor_available: true has been inserted under
\* the name a stub with vendor_available: false registered before
C15_Witness ==
    \E w \in Workers :
        /\ pc[w] = "return"
        /\ mod[w].linker = "libraryDecorator"
        /\ ~isVndkSp(mod[w])
        /\ mod[w].Vendor_available = "true"
        /\ inList(mod[w].name, llndkLibraries)
        /\ inList(mod[w].name, vndkPrivateLibraries)
        /\ inList(mod[w].name, vndkCoreLibraries)

\* the vendor_available of `to` as the check reads it: a stub's is a bool,
\* a library's may be unset
VendorAvailableOf(to) ==
    IF to.linker = "llndkStubDecorator"
    THEN (IF to.llndkVendorAvailable THEN "true" ELSE "false")
    ELSE to.Vendor_available

\* C16: the vendor_available: false diagnostic is emitted exactly when from
\* is not VNDK and `to` is an LL-NDK stub with vendor_available false or a
\* shared or static library with vendor_available explicitly false; never
\* when from is VNDK, nor when the flag of `to` is unset or true
C16_VendorOnlyGuard ==
    edgePc = "checked" =>
        /\ HasError(ErrVendorAvailableFalse) <=>
               /\ edgeFrom.Enabled # "true"
               /\ \/ edgeTo.linker = "llndkStubDecorator" /\ VendorAvailableOf(edgeTo) = "false"
                  \/ /\ edgeTo.linker \in {"libraryDecorator", "prebuiltLibraryLinker"}
                     /\ VendorAvailableOf(edgeTo) = "false"
        /\ edgeFrom.Enabled = "true" => ~HasError(ErrVendorAvailableFalse)
        /\ VendorAvailableOf(edgeTo) \in {"nil", "true"} => ~HasError(ErrVendorAvailableFalse)

C16_Witness ==
    /\ edgePc = "checked"
    /\ edgeFrom.Enabled = "nil"
    /\ edgeTo.linker = "prebuiltLibraryLinker" /\ ~edgeTo.shared
    /\ edgeTo.Vendor_available = "false"
    /\ ctxErrors = <<[format |-> ErrVendorAvailableFalse, args |-> <<edgeTo.name>>]>>

\* "native:"
LabelPrefix == <<110, 97, 116, 105, 118, 101, 58>>

\* "vendor"
TierVendor == <<118, 101, 110, 100, 111, 114>>

\* the tier label of a classification view, from its two properties
TierLabel(m) ==
    LabelPrefix \o
        (IF m.Enabled # "true" THEN TierVendor
         ELSE IF m.Support_system_process = "true" THEN TierVndkSp
         ELSE TierVndk)

\* `to` is a shared library without a vendor variant
NoVendorVariant ==
    /\ edgePc = "checked"
    /\ edgeTo.linker = "libraryDecorator" /\ edgeTo.shared
    /\ ~edgeTo.UseVndk

C18_ScopeRestriction ==
    edgePc = "checked" =>
        /\ edgeTo.linker = "nil" => ctxErrors = <<>>
        /\ (\/ edgeTo.linker = "llndkStubDecorator"
            \/ edgeTo.linker \in {"libraryDecorator", "prebuiltLibraryLinker"} /\ ~edgeTo.shared) =>
               /\ LaterErrors(ctxErrors) = <<>>
               /\ edgeFrom.Enabled = "true" => ctxErrors = <<>>

\* a static library without a vendor variant, from a VNDK-core module
C18_Witness ==
    /\ edgePc = "checked"
    /\ edgeFrom.Enabled = "true"
    /\ edgeTo.linker = "libraryDecorator" /\ ~edgeTo.shared
    /\ ~edgeTo.UseVndk
    /\ edgeTo.Vendor_available = "false"
    /\ ctxErrors = <<>>

\* the library name a non-stub module registers under
CanonLib(m) == CHOOSE n \in BaseNames : m.name = n \/ m.name = PrebuiltPrefix \o n

\* a shared library, plain or prebuilt, with vndk.enabled true
SharedVndk(m) ==
    /\ m.linker \in {"libraryDecorator", "prebuiltLibraryLinker"}
    /\ m.shared
    /\ m.Enabled = "true"

PrivateNameOf(m) == IF m.Vendor_available \in {"nil", "false"} THEN {CanonLib(m)} ELSE {}

\* what one visit of any non-stub module does to the lists as they are now
C19_Effect ==
    \A m \in VisitModules :
        ~isStub(m) =>
            LET r == vndkMutator(Regs, m)
            IN  IF SharedVndk(m)
                THEN /\ r.llndk = llndkLibraries
                     /\ IF m.Support_system_process = "true"
                        THEN /\ Names(r.sp) = Names(vndkSpLibraries) \cup {CanonLib(m)}
                             /\ r.core = vndkCoreLibraries
                        ELSE /\ Names(r.core) = Names(vndkCoreLibraries) \cup {CanonLib(m)}
                             /\ r.sp = vndkSpLibraries
                     /\ Names(r.private) = Names(vndkPrivateLibraries) \cup PrivateNameOf(m)
                ELSE r = Regs

C19_InLibraryBranch ==
    \A w \in Workers : pc[w] \in {"libTier", "libPrivate"} => SharedVndk(mod[w])

C19_LibStep ==
    \A w \in Workers :
        /\ (pc[w] = "libTier" /\ pc'[w] = "libPrivate") =>
               /\ llndkLibraries' = llndkLibraries
               /\ vndkPrivateLibraries' = vndkPrivateLibraries
               /\ IF mod[w].Support_system_process = "true"
                  THEN /\ Names(vndkSpLibraries') = Names(vndkSpLibraries) \cup {CanonLib(mod[w])}
                       /\ vndkCoreLibraries' = vndkCoreLibraries
                  ELSE /\ Names(vndkCoreLibraries') = Names(vndkCoreLibraries) \cup {CanonLib(mod[w])}
                       /\ vndkSpLibraries' = vndkSpLibraries
        /\ (pc[w] = "libPrivate" /\ pc'[w] = "return") =>
               /\ llndkLibraries' = llndkLibraries
               /\ vndkCoreLibraries' = vndkCoreLibraries
               /\ vndkSpLibraries' = vndkSpLibraries
               /\ Names(vndkPrivateLibraries') =
                      Names(vndkPrivateLibraries) \cup PrivateNameOf(mod[w])

\* C19: the visit of a shared library (plain or prebuilt) that is VNDK puts
\* its name without the prebuilt_ prefix into vndkSpLibraries when it is
\* VNDK-SP and else into vndkCoreLibraries, and into vndkPrivateLibraries
\* when vendor_available is unset or false, leaving llndkLibraries alone;
\* the visit of any other non-stub module changes none of the four lists
C19_LibraryVisit == [](C19_Effect /\ C19_InLibraryBranch) /\ [][C19_LibStep]_vars

\* a prebuilt VNDK-SP library with vendor_available unset has been inserted
C19_Witness ==
    \E w \in Workers :
        /\ pc[w] = "return"
        /\ mod[w].linker = "prebuiltLibraryLinker"
        /\ mod[w].Support_system_process = "true"
        /\ mod[w].Vendor_available = "nil"
        /\ inList(CanonLib(mod[w]), vndkSpLibraries)
        /\ inList(CanonLib(mod[w]), vndkPrivateLibraries)
        /\ ~inList(CanonLib(mod[w]), vndkCoreLibraries)
        /\ llndkLibraries = <<>>

\* a worker holds the mutex exactly from Lock() to the deferred Unlock()
C20_HeldInsideOnly ==
    \A w \in Workers :
        vndkLibrariesLock = w <=>
            pc[w] \in {"stubLlndk", "stubPrivate", "libTier", "libPrivate", "return"}

\* C20: a visit holds the lock only between its Lock() and its return, so it
\* is never at Lock() while holding it; and when the workers are scheduled
\* fairly every visit that has started returns with the lock released
C20_LockLiveness ==
    /\ []C20_HeldInsideOnly
    /\ \A w \in Workers :
           (pc[w] # "idle") ~> (pc[w] = "idle" /\ vndkLibrariesLock # w)
    /\ <>[](Quiescent /\ vndkLibrariesLock = NoWorker)

\* all visits are over, a stub branch and a library branch among them
C20_Witness ==
    /\ Quiescent
    /\ vndkLibrariesLock = NoWorker
    /\ llndkLibraries # <<>>
    /\ vndkSpLibraries # <<>>

====
